---- MODULE Spec2Model ----
(***************************************************************************)
(* A model of imgconvrtr.py: the backend registry built while the module   *)
(* is imported (native library probes, optimizer tool probes), the lazy    *)
(* SVG dependency check, and convert_img_format with the helpers it calls. *)
(*                                                                         *)
(* Encoded byte buffers are modelled by what went into them: the encoder   *)
(* that produced them, the container format, the pixel buffer and the      *)
(* options the encoder received.  Input bytes are modelled by their first  *)
(* bytes (a sequence of runs) and by what the decoders make of them.       *)
(* Everything outside imgconvrtr.py (the operating system, the native      *)
(* libraries, the external tools, Pillow's codecs) is the environment: its *)
(* outcomes are chosen nondeterministically, the fixed part in env, the    *)
(* per-call part in the outcome record of each call.                       *)
(***************************************************************************)
EXTENDS Integers, Sequences, FiniteSets, TLC

VARIABLES
    env,                    \* the machine the process runs on (fixed)
    phase,                  \* position in the module's top-level code
    libwebp,                \* ctypes handle of libwebp, or None
    libavif,                \* ctypes handle of libavif, or None
    libwebp_load_errors,    \* _libwebp_load_errors
    libavif_load_errors,    \* _libavif_load_errors
    compression_tools,      \* _compression_tools
    svg_available,          \* _svg_available: "None", "True" or "False"
    call,                   \* the arguments of the call in progress, or None
    result,                 \* what that call did and returned, or None
    first_ret,              \* per accessor: the value its first call returned
    held                    \* the object a caller got from an accessor

vars == <<env, phase, libwebp, libavif, libwebp_load_errors,
          libavif_load_errors, compression_tools, svg_available,
          call, result, first_ret, held>>

registry == <<libwebp, libavif, libwebp_load_errors, libavif_load_errors,
              compression_tools>>

None == "None"

(***************************************************************************)
(* Bounds of the model.                                                    *)
(***************************************************************************)
\* How many of the manual search paths a modelled machine may hold a
\* loadable library at (the first MaxLoadable paths of each list).
MaxLoadable == 1
\* How many times a caller appends to a list an accessor returned.
MaxMutations == 1
\* The longest pixel buffer of the pixel-level specification.
MaxPixels == 2
\* The mantissa width of the model's floats (CPython's have 53 bits).
MantissaBits == 8

(***************************************************************************)
(* Program constants.                                                      *)
(***************************************************************************)
SniffLen == 200
DefaultQuality == 80
White == 255

(***************************************************************************)
(* The backend registry: module top-level code, lines 13-237.              *)
(***************************************************************************)
WebpNames == <<"webp", "libwebp">>
AvifNames == <<"avif", "libavif">>

WebpSearchPaths(windows) ==
    IF windows
    THEN <<"libwebp.dll", "webp.dll", "./libwebp.dll", "./webp.dll",
           "exec_prefix/libwebp.dll", "C:/Windows/System32/libwebp.dll",
           "C:/Program Files/libwebp/bin/libwebp.dll">>
    ELSE <<"libwebp.so", "libwebp.so.7", "libwebp.so.8", "libwebp.dylib",
           "./libwebp.so", "/usr/lib/libwebp.so", "/usr/local/lib/libwebp.so",
           "/opt/homebrew/lib/libwebp.dylib">>

AvifSearchPaths(windows) ==
    IF windows
    THEN <<"libavif.dll", "avif.dll", "./libavif.dll", "./avif.dll",
           "C:/Windows/System32/libavif.dll">>
    ELSE <<"libavif.so", "libavif.so.15", "libavif.so.16", "libavif.dylib",
           "./libavif.so", "/usr/lib/libavif.so", "/usr/local/lib/libavif.so",
           "/opt/homebrew/lib/libavif.dylib">>

\* find_library(name): the path the system resolves the name to, or None.
find_library(e, name) == e.found[name]

\* ctypes.CDLL(path): whether the load succeeds on this machine.
CDLL(e, path) == path \in e.loadable

\* The f-strings appended to the trails, kept as records.
LoadRecord(ok, path) == [ok |-> ok, path |-> path]
PluginRecord == [ok |-> TRUE, path |-> "pillow-avif-plugin"]

\* _try_load_libwebp(path): the handle or None, and _libwebp_load_errors
\* with the attempt appended.
try_load_libwebp(e, path, trail) ==
    IF CDLL(e, path)
    THEN [lib |-> path, trail |-> Append(trail, LoadRecord(TRUE, path))]
    ELSE [lib |-> None, trail |-> Append(trail, LoadRecord(FALSE, path))]

\* for path in search_paths: libwebp = _try_load_libwebp(path); break on success
RECURSIVE WebpSearchLoop(_, _, _, _)
WebpSearchLoop(e, paths, i, trail) ==
    IF i > Len(paths)
    THEN [lib |-> None, trail |-> trail]
    ELSE LET r == try_load_libwebp(e, paths[i], trail)
         IN  IF r.lib # None THEN r
             ELSE WebpSearchLoop(e, paths, i + 1, r.trail)

\* Lines 41-92: both find_library names, then the manual paths.
LoadLibwebp(e, trail) ==
    LET f1 == find_library(e, "webp")
        r1 == IF f1 # None THEN try_load_libwebp(e, f1, trail)
              ELSE [lib |-> None, trail |-> trail]
        f2 == find_library(e, "libwebp")
        r2 == IF r1.lib # None THEN r1
              ELSE IF f2 # None THEN try_load_libwebp(e, f2, r1.trail)
              ELSE r1
    IN  IF r2.lib # None THEN r2
        ELSE WebpSearchLoop(e, WebpSearchPaths(e.windows), 1, r2.trail)

\* Lines 191-197 and 211-217: ctypes.CDLL directly, recorded in the AVIF trail.
RECURSIVE AvifSearchLoop(_, _, _, _)
AvifSearchLoop(e, paths, i, trail) ==
    IF i > Len(paths)
    THEN [lib |-> None, trail |-> trail]
    ELSE IF CDLL(e, paths[i])
         THEN [lib |-> paths[i],
               trail |-> Append(trail, LoadRecord(TRUE, paths[i]))]
         ELSE AvifSearchLoop(e, paths, i + 1,
                             Append(trail, LoadRecord(FALSE, paths[i])))

\* Lines 161-220.  A library found by find_library is loaded through
\* _try_load_libwebp, which records the attempt in _libwebp_load_errors;
\* the AVIF trail gets a record of it only when the load succeeded.
LoadLibavif(e, wtrail, atrail) ==
    LET f1 == find_library(e, "avif")
        t1 == IF f1 # None THEN try_load_libwebp(e, f1, wtrail)
              ELSE [lib |-> None, trail |-> wtrail]
        a1 == IF t1.lib # None
              THEN Append(atrail, LoadRecord(TRUE, f1)) ELSE atrail
        f2 == find_library(e, "libavif")
        t2 == IF t1.lib = None /\ f2 # None
              THEN try_load_libwebp(e, f2, t1.trail)
              ELSE t1
        a2 == IF t1.lib = None /\ t2.lib # None
              THEN Append(a1, LoadRecord(TRUE, f2)) ELSE a1
        m  == IF t2.lib # None THEN [lib |-> t2.lib, trail |-> a2]
              ELSE AvifSearchLoop(e, AvifSearchPaths(e.windows), 1, a2)
    IN  [lib |-> m.lib, wtrail |-> t2.trail, atrail |-> m.trail]

\* _check_tool_available(tool_name): the probe exits 0 within the timeout.
check_tool_available(e, tool_name) == e.tools[tool_name] = "ok"

ToolFlags == {"mozjpeg", "oxipng", "optipng"}
Executables == {"cjpeg", "mozjpeg", "oxipng", "optipng"}

\* Lines 235-237.
CheckCompressionTools(e) ==
    [t \in ToolFlags |->
        CASE t = "mozjpeg" -> check_tool_available(e, "cjpeg")
                              \/ check_tool_available(e, "mozjpeg")
          [] t = "oxipng"  -> check_tool_available(e, "oxipng")
          [] t = "optipng" -> check_tool_available(e, "optipng")]

\* import pillow_avif succeeded (lines 16-20).
avif_plugin_available == env.plugin

(***************************************************************************)
(* Input bytes.  head is the start of the buffer as a sequence of runs     *)
(* [t, n]: n bytes of whitespace ("ws"), of bytes that are not valid UTF-8 *)
(* ("bad"), the literal "<?xml" ("xml", 5 bytes), the literal "<svg"       *)
(* ("svg", 4 bytes), other text ("txt") or decodable binary ("bin").       *)
(* kind says what the decoders make of the whole buffer: "raster" (Pillow  *)
(* opens and loads it: container, mode, px), "truncated" (Pillow opens it  *)
(* and fails to load it), "svg" (svglib parses it; px is its rendering),   *)
(* "junk" (neither) and "empty" (no bytes).                                *)
(***************************************************************************)
Run(t, n) == [t |-> t, n |-> n]

Bytes(head, kind, container, mode, px) ==
    [head |-> head, kind |-> kind, container |-> container,
     mode |-> mode, px |-> px]

EmptyBytes == Bytes(<<>>, "empty", None, None, <<>>)

\* len(data) for the runs of a head
RECURSIVE HeadLen(_)
HeadLen(h) == IF h = <<>> THEN 0 ELSE Head(h).n + HeadLen(Tail(h))

\* data[:k].  A literal cut short is no longer the literal.
RECURSIVE Slice(_, _)
Slice(h, k) ==
    IF h = <<>> \/ k <= 0 THEN <<>>
    ELSE LET r == Head(h)
         IN  IF r.n <= k THEN <<r>> \o Slice(Tail(h), k - r.n)
             ELSE IF r.t \in {"xml", "svg"} THEN <<Run("txt", k)>>
             ELSE <<Run(r.t, k)>>

\* .decode('utf-8', errors='ignore'): undecodable bytes are dropped
DecodeIgnore(h) == SelectSeq(h, LAMBDA r : r.t # "bad")

\* .strip(): leading and trailing whitespace removed
RECURSIVE LStrip(_)
LStrip(s) ==
    IF s = <<>> THEN <<>>
    ELSE IF Head(s).t = "ws" THEN LStrip(Tail(s)) ELSE s

RECURSIVE RStrip(_)
RStrip(s) ==
    IF s = <<>> THEN <<>>
    ELSE IF s[Len(s)].t = "ws" THEN RStrip(SubSeq(s, 1, Len(s) - 1)) ELSE s

Strip(s) == RStrip(LStrip(s))

\* str.startswith(lit) for lit one of the two literals
StartsWith(s, lit) == s # <<>> /\ Head(s).t = lit

(***************************************************************************)
(* File names are sequences of characters.                                 *)
(***************************************************************************)
LowerChar(ch) ==
    CASE ch = "S" -> "s" [] ch = "V" -> "v" [] ch = "G" -> "g"
      [] ch = "P" -> "p" [] ch = "N" -> "n" [] ch = "A" -> "a"
      [] OTHER -> ch

\* str.lower()
Lower(s) == [i \in 1..Len(s) |-> LowerChar(s[i])]

\* str.endswith(suffix)
EndsWith(s, suffix) ==
    /\ Len(s) >= Len(suffix)
    /\ SubSeq(s, Len(s) - Len(suffix) + 1, Len(s)) = suffix

DotSvg == <<".", "s", "v", "g">>

(***************************************************************************)
(* The image_file argument: bytes, or a file-like object with read and     *)
(* seek, a position, possibly a name, and possibly a failing seek or read. *)
(***************************************************************************)
BytesArg(data) ==
    [stream |-> FALSE, data |-> data, pos |-> "start",
     hasName |-> FALSE, name |-> <<>>, fault |-> "none"]

StreamArg(data, pos, hasName, name, fault) ==
    [stream |-> TRUE, data |-> data, pos |-> pos,
     hasName |-> hasName, name |-> name, fault |-> fault]

\* The rest of a buffer read from the middle: some bytes, not an image.
RestOf(data) ==
    IF data.kind = "empty" THEN EmptyBytes
    ELSE Bytes(<<Run("bin", 1)>>, "junk", None, None, <<>>)

\* stream.read() at position pos
ReadAt(data, pos) ==
    CASE pos = "start" -> data
      [] pos = "mid"   -> RestOf(data)
      [] pos = "end"   -> EmptyBytes

\* Lines 586-603: [ok, data] where not ok is the ValueError.
ReadInputNoSeek(file) ==
    IF file.stream
    THEN IF file.fault # "none" THEN [ok |-> FALSE, data |-> EmptyBytes]
         ELSE LET d == ReadAt(file.data, file.pos)
              IN  [ok |-> d.kind # "empty", data |-> d]
    ELSE [ok |-> file.data.kind # "empty", data |-> file.data]

ReadInputNoCheck(file) ==
    IF file.stream
    THEN IF file.fault # "none" THEN [ok |-> FALSE, data |-> EmptyBytes]
         ELSE [ok |-> TRUE, data |-> ReadAt(file.data, "start")]
    ELSE [ok |-> TRUE, data |-> file.data]

ReadInput(file) ==
    IF file.stream
    THEN IF file.fault # "none" THEN [ok |-> FALSE, data |-> EmptyBytes]
         ELSE LET d == ReadAt(file.data, "start")
              IN  [ok |-> d.kind # "empty", data |-> d]
    ELSE [ok |-> file.data.kind # "empty", data |-> file.data]

\* Lines 605-618: is_svg.
SniffNoStrip(data, file) ==
    LET s == DecodeIgnore(Slice(data.head, SniffLen))
    IN  \/ StartsWith(s, "xml") \/ StartsWith(s, "svg")
        \/ (file.hasName /\ file.name # <<>>
            /\ EndsWith(Lower(file.name), DotSvg))

SniffNoName(data, file) ==
    LET s == Strip(DecodeIgnore(Slice(data.head, SniffLen)))
    IN  StartsWith(s, "xml") \/ StartsWith(s, "svg")

SniffSvg(data, file) ==
    LET image_data_str == Strip(DecodeIgnore(Slice(data.head, SniffLen)))
        by_content == StartsWith(image_data_str, "xml")
                      \/ StartsWith(image_data_str, "svg")
    IN  \/ by_content
        \/ (~by_content /\ file.hasName /\ file.name # <<>>
            /\ EndsWith(Lower(file.name), DotSvg))

(***************************************************************************)
(* Images (PIL.Image): mode, format attribute, pixels, and which decoder   *)
(* the pixels came from.  px is a sequence of <<r, g, b, a>> for RGBA and  *)
(* of <<r, g, b>> for RGB.  loads says whether the pixel data can be read. *)
(***************************************************************************)
Img(mode, format, px, src, loads) ==
    [mode |-> mode, format |-> format, px |-> px, src |-> src,
     loads |-> loads]

NoImg == Img(None, None, <<>>, None, FALSE)

\* Image.open(io.BytesIO(image_data)): reads the header only.
PilOpen(data) ==
    IF data.kind \in {"raster", "truncated"}
    THEN [ok |-> TRUE,
          img |-> Img(data.mode, data.container, data.px, "PIL",
                      data.kind = "raster")]
    ELSE [ok |-> FALSE, img |-> NoImg]

\* Image.convert('RGBA') of an RGB pixel: alpha 255.
AddAlpha(p) == IF Len(p) = 3 THEN <<p[1], p[2], p[3], White>> ELSE p

\* Lines 634-635.  convert returns a new image; its format attribute is None.
ToRGBAKeepFormat(img) ==
    IF img.mode # "RGBA"
    THEN Img("RGBA", img.format, [i \in 1..Len(img.px) |-> AddAlpha(img.px[i])],
             img.src, img.loads)
    ELSE img

ToRGBA(img) ==
    IF img.mode # "RGBA"
    THEN Img("RGBA", None, [i \in 1..Len(img.px) |-> AddAlpha(img.px[i])],
             img.src, img.loads)
    ELSE img

\* Pillow's DIV255 and BLEND8 (paste with an "L" mask).
Div255(a) == LET tmp == a + 128 IN ((tmp \div 256) + tmp) \div 256

Blend8(mask, in1, in2) == Div255(in1 * (255 - mask) + in2 * mask)

\* Lines 699-703: a white RGB image with img pasted through its alpha band.
DropAlphaPixel(p) == <<p[1], p[2], p[3]>>

FlattenPixel(p) ==
    <<Blend8(p[4], White, p[1]), Blend8(p[4], White, p[2]),
      Blend8(p[4], White, p[3])>>

FlattenByDrop(img) ==
    IF img.mode = "RGBA"
    THEN Img("RGB", None, [i \in 1..Len(img.px) |-> DropAlphaPixel(img.px[i])],
             img.src, img.loads)
    ELSE img

FlattenOnWhite(img) ==
    IF img.mode = "RGBA"
    THEN Img("RGB", None, [i \in 1..Len(img.px) |-> FlattenPixel(img.px[i])],
             img.src, img.loads)
    ELSE img

\* Lines 722-723: img.convert('RGB') copies the colour bands.
BmpByFlatten(img) == FlattenOnWhite(img)

ConvertRGB(img) ==
    IF img.mode = "RGBA"
    THEN Img("RGB", None, [i \in 1..Len(img.px) |-> DropAlphaPixel(img.px[i])],
             img.src, img.loads)
    ELSE img

(***************************************************************************)
(* Encoded buffers: who wrote them, the container, the pixels and the      *)
(* options the writer received (quality -1 and "unset": not passed).       *)
(***************************************************************************)
Encoded(by, fmt, img, quality, lossless, optimize) ==
    [by |-> by, fmt |-> fmt, mode |-> img.mode, px |-> img.px,
     quality |-> quality, lossless |-> lossless, optimize |-> optimize]

NoBytes == Encoded(None, None, NoImg, -1, "unset", "unset")

BoolStr(b) == IF b THEN "True" ELSE "False"

\* img.save(output_img, format=..., ...) through Pillow's own writers.
PilSave(img, fmt, quality, lossless, optimize) ==
    Encoded("PIL", fmt, img, quality, lossless, optimize)

\* encode_to_webp, lines 478-526, given what the native call does: "ok",
\* "zero" (size 0, the library's failure return, its output pointer unset)
\* or "raise".  [ok, data].
EncodeToWebpLossyOnly(lib, img, quality_factor, lossless, outcome) ==
    IF lib = None \/ outcome # "ok"
    THEN [ok |-> FALSE, data |-> NoBytes]
    ELSE [ok |-> TRUE,
          data |-> Encoded("libwebp", "WEBP", img, quality_factor,
                           "False", "unset")]

encode_to_webp(lib, img, quality_factor, lossless, outcome) ==
    IF lib = None \/ outcome # "ok"
    THEN [ok |-> FALSE, data |-> NoBytes]
    ELSE [ok |-> TRUE,
          data |-> IF lossless
                   THEN Encoded("libwebp", "WEBP", img, -1, "True", "unset")
                   ELSE Encoded("libwebp", "WEBP", img, quality_factor,
                                "False", "unset")]

\* decode_from_webp, lines 529-567, given what the native calls do: "ok",
\* "bad_header" (WebPGetInfo returns 0), "raise" (the call raises), and
\* "null_zeros" and "null_heap": WebPDecodeRGBA returns a null pointer.  The
\* test `rgba_ptr is None` (line 557) is false for a ctypes pointer object,
\* and ctypes.string_at on address 0 with a size copies nothing: it returns
\* width*height*4 bytes of memory that was never written.  What those bytes
\* hold is not determined; two contents stand for them.  [ok, px].
Uninitialized(outcome) ==
    IF outcome = "null_zeros" THEN <<0, 0, 0, 0>> ELSE <<205, 205, 205, 205>>

decode_from_webp(lib, img, outcome) ==
    CASE lib = None -> [ok |-> FALSE, px |-> <<>>]
      [] outcome = "ok" -> [ok |-> TRUE, px |-> img.px]
      [] outcome \in {"null_zeros", "null_heap"} ->
            [ok |-> TRUE,
             px |-> [i \in 1..Len(img.px) |-> Uninitialized(outcome)]]
      [] OTHER -> [ok |-> FALSE, px |-> <<>>]

(***************************************************************************)
(* The external optimizers.  outcome is what happens on the way: "ok",     *)
(* "write_fails" (writing the temp input file raises), "out_create_fails"  *)
(* (creating the second temp file raises), "tool_fails" (non-zero exit or  *)
(* the executable is missing), "read_fails", "empty" (the tool wrote no    *)
(* bytes), "hang" (the tool never exits: subprocess.run has no timeout).   *)
(* Each returns [data, ran, left, hang, raised]: the bytes (NoBytes for    *)
(* None), the executables started, the temp files still on disk, whether   *)
(* the call is still waiting for the tool, and whether an exception left   *)
(* the function.                                                           *)
(***************************************************************************)
OptResult(data, ran, left, hang, raised) ==
    [data |-> data, ran |-> ran, left |-> left, hang |-> hang,
     raised |-> raised]

\* Line 399: tool = 'oxipng' if _compression_tools.get('oxipng') else 'optipng'
PickOptipngFirst(tools) == IF tools["optipng"] THEN "optipng" ELSE "oxipng"

PickPngTool(tools) == IF tools["oxipng"] THEN "oxipng" ELSE "optipng"

\* optimize_png(png_data), lines 387-427.
optimize_png(tools, png_data, outcome) ==
    LET tool == PickPngTool(tools)
    IN  IF ~tools[tool] THEN OptResult(png_data, <<>>, {}, FALSE, FALSE)
        ELSE CASE outcome = "ok" ->
                    OptResult([png_data EXCEPT !.by = tool], <<tool>>, {},
                              FALSE, FALSE)
               [] outcome = "hang" ->
                    OptResult(NoBytes, <<tool>>, {"tmp_in.png"}, TRUE, FALSE)
               [] outcome = "write_fails" ->
                    \* tmp_in_path is assigned after the write: not unlinked
                    OptResult(png_data, <<>>, {"tmp_in.png"}, FALSE, FALSE)
               [] outcome = "tool_fails" ->
                    OptResult(png_data, <<tool>>, {}, FALSE, FALSE)
               [] outcome = "read_fails" ->
                    OptResult(png_data, <<tool>>, {}, FALSE, FALSE)

\* optimize_jpeg_mozjpeg(rgb_data, width, height, quality), lines 430-475.
\* The command line names cjpeg whatever executable set the flag.
MozjpegFailureEscapes(tools, img, quality, outcome) ==
    IF ~tools["mozjpeg"] THEN OptResult(NoBytes, <<>>, {}, FALSE, FALSE)
    ELSE CASE outcome = "ok" ->
                OptResult(Encoded("cjpeg", "JPEG", img, quality, "unset", "unset"),
                          <<"cjpeg">>, {}, FALSE, FALSE)
           [] outcome = "hang" ->
                OptResult(NoBytes, <<"cjpeg">>, {"tmp_in.ppm", "tmp_out.jpg"},
                          TRUE, FALSE)
           [] OTHER -> OptResult(NoBytes, <<"cjpeg">>, {}, FALSE, TRUE)

optimize_jpeg_mozjpeg(tools, img, quality, outcome) ==
    IF ~tools["mozjpeg"] THEN OptResult(NoBytes, <<>>, {}, FALSE, FALSE)
    ELSE CASE outcome = "ok" ->
                OptResult(Encoded("cjpeg", "JPEG", img, quality, "unset", "unset"),
                          <<"cjpeg">>, {}, FALSE, FALSE)
           [] outcome = "empty" ->
                OptResult(NoBytes, <<"cjpeg">>, {}, FALSE, FALSE)
           [] outcome = "hang" ->
                OptResult(NoBytes, <<"cjpeg">>, {"tmp_in.ppm", "tmp_out.jpg"},
                          TRUE, FALSE)
           [] outcome = "write_fails" ->
                \* tmp_in_path is assigned after the write: not unlinked
                OptResult(NoBytes, <<>>, {"tmp_in.ppm"}, FALSE, FALSE)
           [] outcome = "out_create_fails" ->
                OptResult(NoBytes, <<>>, {}, FALSE, FALSE)
           [] outcome = "tool_fails" ->
                OptResult(NoBytes, <<"cjpeg">>, {}, FALSE, FALSE)
           [] outcome = "read_fails" ->
                OptResult(NoBytes, <<"cjpeg">>, {}, FALSE, FALSE)

(***************************************************************************)
(* SVG rasterization.                                                      *)
(***************************************************************************)
\* _check_svg_support, lines 268-281: the import probe runs only while
\* _svg_available is None.  [available, after, probed].
CheckSvgAlwaysProbe(sv, e) ==
    [available |-> e.svgdeps, after |-> BoolStr(e.svgdeps), probed |-> TRUE]

check_svg_support(sv, e) ==
    IF sv = None
    THEN [available |-> e.svgdeps, after |-> BoolStr(e.svgdeps),
          probed |-> TRUE]
    ELSE [available |-> sv = "True", after |-> sv, probed |-> FALSE]

\* Python floats, as far as lines 343-357 use them: a float is m * 2^e with
\* a mantissa m of MantissaBits bits (0 for zero), and every division and
\* multiplication is rounded to the nearest float, ties to the even
\* mantissa.  CPython's float has 53 bits; MantissaBits is the width the
\* model carries.
RECURSIVE Pow2(_)
Pow2(k) == IF k = 0 THEN 1 ELSE 2 * Pow2(k - 1)

Float(m, e) == [m |-> m, e |-> e]

FZero == Float(0, 0)

\* The float nearest to (n / d) * 2^e, for integers n, d > 0.
RECURSIVE RoundTo(_, _, _)
RoundTo(n, d, e) ==
    IF n >= d * Pow2(MantissaBits) THEN RoundTo(n, 2 * d, e + 1)
    ELSE IF n < d * Pow2(MantissaBits - 1) THEN RoundTo(2 * n, d, e - 1)
    ELSE LET q == n \div d
             r == n % d
             up == 2 * r > d \/ (2 * r = d /\ q % 2 = 1)
             m == IF up THEN q + 1 ELSE q
         IN  IF m = Pow2(MantissaBits)
             THEN Float(Pow2(MantissaBits - 1), e + 1)
             ELSE Float(m, e)

\* float(n) for an int n >= 0
FromInt(n) == IF n = 0 THEN FZero ELSE RoundTo(n, 1, 0)

\* a / b, b not zero
FDiv(a, b) == IF a.m = 0 THEN FZero ELSE RoundTo(a.m, b.m, a.e - b.e)

\* a * b
FMul(a, b) ==
    IF a.m = 0 \/ b.m = 0 THEN FZero ELSE RoundTo(a.m * b.m, 1, a.e + b.e)

\* a <= b
FLeq(a, b) ==
    LET k == IF a.e <= b.e THEN a.e ELSE b.e
    IN  a.m * Pow2(a.e - k) <= b.m * Pow2(b.e - k)

\* min(a, b)
FMin(a, b) == IF FLeq(a, b) THEN a ELSE b

\* The drawing svg2rlg returns, as far as the scaling reads it.
Drawing(w, h) == [width |-> FromInt(w), height |-> FromInt(h)]

NoDrawing == Drawing(0, 0)

\* Truth value of the width and height arguments.  The code only ever tests
\* their truth, so None and 0 act alike; the model writes both as 0.
Given(x) == x # 0

\* Lines 343-357 with max for min at line 352.
ScaleDrawingByLarger(drawing, width, height) ==
    IF ~(Given(width) \/ Given(height))
    THEN [width |-> drawing.width, height |-> drawing.height, scale |-> None]
    ELSE LET scale_x == IF Given(width) /\ drawing.width.m # 0
                        THEN FDiv(FromInt(width), drawing.width)
                        ELSE FromInt(1)
             scale_y == IF Given(height) /\ drawing.height.m # 0
                        THEN FDiv(FromInt(height), drawing.height)
                        ELSE FromInt(1)
             scale == IF Given(width) /\ Given(height)
                      THEN IF FLeq(scale_x, scale_y) THEN scale_y ELSE scale_x
                      ELSE IF Given(width) THEN scale_x ELSE scale_y
         IN  [width |-> FMul(drawing.width, scale),
              height |-> FMul(drawing.height, scale), scale |-> scale]

\* Lines 343-357: the drawing's size after "Scale if dimensions specified",
\* and the factor used (None when nothing is scaled).
ScaleDrawing(drawing, width, height) ==
    IF ~(Given(width) \/ Given(height))
    THEN [width |-> drawing.width, height |-> drawing.height, scale |-> None]
    ELSE LET scale_x == IF Given(width) /\ drawing.width.m # 0
                        THEN FDiv(FromInt(width), drawing.width)
                        ELSE FromInt(1)
             scale_y == IF Given(height) /\ drawing.height.m # 0
                        THEN FDiv(FromInt(height), drawing.height)
                        ELSE FromInt(1)
             scale == IF Given(width) /\ Given(height)
                      THEN FMin(scale_x, scale_y)
                      ELSE IF Given(width) THEN scale_x ELSE scale_y
         IN  [width |-> FMul(drawing.width, scale),
              height |-> FMul(drawing.height, scale), scale |-> scale]

\* Lines 360-361: the PDF page size
PageSize(d) ==
    [width |-> IF d.width.m # 0 THEN d.width ELSE FromInt(800),
     height |-> IF d.height.m # 0 THEN d.height ELSE FromInt(600)]

NoScaled == [width |-> FZero, height |-> FZero, scale |-> None]

\* rasterize_svg(svg_data), lines 284-384, as convert_img_format and app.py
\* call it: with no target size, so that lines 343-357 are skipped.  pdf is
\* what pdf2image returns: "ok" or "no_pages".  Every failure is a
\* RuntimeError.  [ok, img, after, probed, parsed].
rasterize_svg(svg_data, sv, e, pdf) ==
    LET chk == check_svg_support(sv, e)
    IN  IF ~chk.available
        THEN [ok |-> FALSE, img |-> NoImg, after |-> chk.after,
              probed |-> chk.probed, parsed |-> FALSE]
        ELSE IF svg_data.kind # "svg"      \* svg2rlg gives no drawing
        THEN [ok |-> FALSE, img |-> NoImg, after |-> chk.after,
              probed |-> chk.probed, parsed |-> TRUE]
        ELSE IF pdf # "ok"                 \* convert_from_bytes gives []
        THEN [ok |-> FALSE, img |-> NoImg, after |-> chk.after,
              probed |-> chk.probed, parsed |-> TRUE]
        ELSE [ok |-> TRUE,
              img |-> Img("RGB", "PPM", svg_data.px, "pdf2image", TRUE),
              after |-> chk.after, probed |-> chk.probed, parsed |-> TRUE]

\* rasterize_svg(svg_data, width, height), lines 284-384: the same call with
\* a target size.  drawing is what svg2rlg makes of the markup; once there
\* is a drawing, lines 343-357 scale it and lines 360-361 size the page.
\* [ok, img, after, probed, parsed, scaled, page].
rasterize_svg_sized(svg_data, drawing, width, height, sv, e, pdf) ==
    LET r == rasterize_svg(svg_data, sv, e, pdf)
        scaled == IF r.parsed /\ svg_data.kind = "svg"
                  THEN ScaleDrawing(drawing, width, height)
                  ELSE NoScaled
    IN  [ok |-> r.ok, img |-> r.img, after |-> r.after, probed |-> r.probed,
         parsed |-> r.parsed, scaled |-> scaled, page |-> PageSize(scaled)]

(***************************************************************************)
(* convert_img_format, lines 570-736.                                      *)
(***************************************************************************)
\* str.lower() on the target strings the model passes
FormatLower(s) ==
    CASE s = "WEBP" -> "webp" [] s = "JPG" -> "jpg" [] s = "AVIF" -> "avif"
      [] s = "Jfif" -> "jfif" [] s = "PNG" -> "png" [] s = "Bmp" -> "bmp"
      [] OTHER -> s

JpegNames == {"jpeg", "jpg", "jfif"}

Outcome(pdf, avif, enc, dec, opt) ==
    [pdf |-> pdf, avif |-> avif, enc |-> enc, dec |-> dec, opt |-> opt]

\* What a call did: kind is "return", "raise" or "hang" (still waiting for
\* a subprocess); err the exception type; out the buffer returned; trace the
\* components invoked, in order; canon the RGBA image the decode stage ends
\* with (lines 633-638, replaced at lines 677-690 for a WEBP input); img
\* the image handed to the encoder; o the environment's outcomes; left the
\* temp files of the call still on disk; after the value of _svg_available
\* when the call ends; probed whether the call ran the import probe of
\* lines 271-280; parsed whether it handed markup to svg2rlg.
Res(kind, err, out, trace, is_svg, canon, img, o, left, after, probed, parsed) ==
    [kind |-> kind, err |-> err, out |-> out, trace |-> trace,
     is_svg |-> is_svg, canon |-> canon, img |-> img, o |-> o,
     left |-> left, after |-> after, probed |-> probed, parsed |-> parsed]

\* Lines 586-638: read, sniff, rasterize or open, normalise to RGBA.
\* [ok, err, data, is_svg, canon, trace, after, probed, parsed]
Front(file, sv, e, pdf) ==
    LET rd == ReadInput(file)
    IN  IF ~rd.ok
        THEN [ok |-> FALSE, err |-> "ValueError", data |-> rd.data,
              is_svg |-> FALSE, canon |-> NoImg, trace |-> <<>>, after |-> sv,
              probed |-> FALSE, parsed |-> FALSE]
        ELSE LET is_svg == SniffSvg(rd.data, file)
             IN  IF is_svg
                 THEN LET r == rasterize_svg(rd.data, sv, e, pdf)
                      IN  [ok |-> r.ok,
                           err |-> IF r.ok THEN "" ELSE "RuntimeError",
                           data |-> rd.data, is_svg |-> TRUE,
                           canon |-> IF r.ok THEN ToRGBA(r.img) ELSE NoImg,
                           trace |-> <<"sniff", "rasterize_svg">>,
                           after |-> r.after, probed |-> r.probed,
                           parsed |-> r.parsed]
                 ELSE LET op == PilOpen(rd.data)
                      IN  IF ~op.ok
                          THEN [ok |-> FALSE, err |-> "ValueError",
                                data |-> rd.data, is_svg |-> FALSE,
                                canon |-> NoImg,
                                trace |-> <<"sniff", "Image.open">>,
                                after |-> sv, probed |-> FALSE,
                                parsed |-> FALSE]
                          ELSE IF ~op.img.loads   \* convert/tobytes raises
                          THEN [ok |-> FALSE, err |-> "OSError",
                                data |-> rd.data, is_svg |-> FALSE,
                                canon |-> NoImg,
                                trace |-> <<"sniff", "Image.open">>,
                                after |-> sv, probed |-> FALSE,
                                parsed |-> FALSE]
                          ELSE [ok |-> TRUE, err |-> "", data |-> rd.data,
                                is_svg |-> FALSE, canon |-> ToRGBA(op.img),
                                trace |-> <<"sniff", "Image.open">>,
                                after |-> sv, probed |-> FALSE,
                                parsed |-> FALSE]

\* Lines 640-653.
EncodeAvifKeepQuality(f, quality, lossless, o) ==
    IF o.avif = "ok"
    THEN Res("return", "",
             PilSave(f.canon, "AVIF", quality,
                     IF lossless THEN "True" ELSE "unset", "unset"),
             f.trace \o <<"save:AVIF">>, f.is_svg, f.canon, f.canon, o, {},
             f.after, f.probed, f.parsed)
    ELSE Res("raise", "RuntimeError", NoBytes, f.trace \o <<"save:AVIF">>,
             f.is_svg, f.canon, f.canon, o, {}, f.after, f.probed, f.parsed)

EncodeAvif(f, quality, lossless, o) ==
    IF o.avif = "ok"
    THEN Res("return", "",
             PilSave(f.canon, "AVIF", IF lossless THEN 100 ELSE quality,
                     IF lossless THEN "True" ELSE "unset", "unset"),
             f.trace \o <<"save:AVIF">>, f.is_svg, f.canon, f.canon, o, {},
             f.after, f.probed, f.parsed)
    ELSE Res("raise", "RuntimeError", NoBytes, f.trace \o <<"save:AVIF">>,
             f.is_svg, f.canon, f.canon, o, {}, f.after, f.probed, f.parsed)

\* Lines 655-675.
EncodeWebpNoFallback(f, lib, quality, lossless, o) ==
    LET n == encode_to_webp(lib, f.canon, quality, lossless, o.enc)
    IN  IF n.ok
        THEN Res("return", "", n.data, f.trace \o <<"encode_to_webp">>,
                 f.is_svg, f.canon, f.canon, o, {}, f.after,
                 f.probed, f.parsed)
        ELSE Res("raise", "RuntimeError", NoBytes,
                 f.trace \o <<"encode_to_webp">>,
                 f.is_svg, f.canon, f.canon, o, {}, f.after,
                 f.probed, f.parsed)

EncodeWebp(f, lib, quality, lossless, o) ==
    IF lib # None
    THEN LET n == encode_to_webp(lib, f.canon, quality, lossless, o.enc)
         IN  IF n.ok
             THEN Res("return", "", n.data, f.trace \o <<"encode_to_webp">>,
                      f.is_svg, f.canon, f.canon, o, {}, f.after,
                      f.probed, f.parsed)
             ELSE Res("return", "",
                      PilSave(f.canon, "WEBP", quality, BoolStr(lossless),
                              "unset"),
                      f.trace \o <<"encode_to_webp", "save:WEBP">>,
                      f.is_svg, f.canon, f.canon, o, {}, f.after,
                      f.probed, f.parsed)
    ELSE Res("return", "",
             PilSave(f.canon, "WEBP", quality, BoolStr(lossless), "unset"),
             f.trace \o <<"save:WEBP">>,
             f.is_svg, f.canon, f.canon, o, {}, f.after, f.probed, f.parsed)

\* Lines 677-690: the image the remaining branches encode.  [img, trace]
NativeWebpInput(f, lib, o) ==
    IF f.canon.format = "WEBP" /\ lib # None
    THEN LET d == decode_from_webp(lib, f.canon, o.dec)
         IN  IF d.ok
             THEN [img |-> Img("RGBA", None, d.px, "libwebp", TRUE),
                   trace |-> <<"decode_from_webp">>]
             ELSE [img |-> ToRGBA(PilOpen(f.data).img),
                   trace |-> <<"decode_from_webp", "Image.open">>]
    ELSE [img |-> f.canon, trace |-> <<>>]

\* Lines 697-717 and 726-727: JPEG, JPG and JFIF.  `if optimized:` is false
\* for None and for an empty buffer.
EncodeJpegNoEmptyCheck(f, w, tools, quality, optimize, o) ==
    LET rgb == FlattenOnWhite(w.img)
        m   == IF optimize
               THEN optimize_jpeg_mozjpeg(tools, rgb, quality, o.opt)
               ELSE OptResult(NoBytes, <<>>, {}, FALSE, FALSE)
        t   == f.trace \o w.trace
               \o (IF optimize THEN <<"optimize_jpeg_mozjpeg">> ELSE <<>>)
               \o m.ran
    IN  IF m.hang
        THEN Res("hang", "", NoBytes, t, f.is_svg, w.img, rgb, o, m.left,
                 f.after, f.probed, f.parsed)
        ELSE IF m.data # NoBytes \/ o.opt = "empty"
        THEN Res("return", "", m.data, t, f.is_svg, w.img, rgb, o, m.left,
                 f.after, f.probed, f.parsed)
        ELSE Res("return", "",
                 PilSave(rgb, "JPEG", quality, "unset", "True"),
                 t \o <<"save:JPEG">>, f.is_svg, w.img, rgb, o, m.left,
                 f.after, f.probed, f.parsed)

EncodeJpeg(f, w, tools, quality, optimize, o) ==
    LET rgb == FlattenOnWhite(w.img)
        m   == IF optimize
               THEN optimize_jpeg_mozjpeg(tools, rgb, quality, o.opt)
               ELSE OptResult(NoBytes, <<>>, {}, FALSE, FALSE)
        t   == f.trace \o w.trace
               \o (IF optimize THEN <<"optimize_jpeg_mozjpeg">> ELSE <<>>)
               \o m.ran
    IN  IF m.hang
        THEN Res("hang", "", NoBytes, t, f.is_svg, w.img, rgb, o, m.left,
                 f.after, f.probed, f.parsed)
        ELSE IF m.raised    \* line 708 is not inside a try
        THEN Res("raise", "Exception", NoBytes, t, f.is_svg, w.img, rgb, o,
                 m.left, f.after, f.probed, f.parsed)
        ELSE IF m.data # NoBytes
        THEN Res("return", "", m.data, t, f.is_svg, w.img, rgb, o, m.left,
                 f.after, f.probed, f.parsed)
        ELSE Res("return", "",
                 PilSave(rgb, "JPEG", quality, "unset", "True"),
                 t \o <<"save:JPEG">>, f.is_svg, w.img, rgb, o, m.left,
                 f.after, f.probed, f.parsed)

\* Lines 718-720 and 726-734: PNG.
EncodePng(f, w, tools, optimize, o) ==
    LET png == PilSave(w.img, "PNG", -1, "unset", "True")
        m   == IF optimize
               THEN optimize_png(tools, png, o.opt)
               ELSE OptResult(png, <<>>, {}, FALSE, FALSE)
        t   == f.trace \o w.trace \o <<"save:PNG">>
               \o (IF optimize THEN <<"optimize_png">> ELSE <<>>)
               \o m.ran
    IN  IF m.hang
        THEN Res("hang", "", NoBytes, t, f.is_svg, w.img, w.img, o, m.left,
                 f.after, f.probed, f.parsed)
        ELSE IF m.raised    \* line 732 is not inside a try
        THEN Res("raise", "Exception", NoBytes, t, f.is_svg, w.img, w.img,
                 o, m.left, f.after, f.probed, f.parsed)
        ELSE Res("return", "", m.data, t, f.is_svg, w.img, w.img, o,
                 m.left, f.after, f.probed, f.parsed)

\* Lines 721-727: BMP.
EncodeBmp(f, w, o) ==
    LET rgb == ConvertRGB(w.img)
    IN  Res("return", "", PilSave(rgb, "BMP", -1, "unset", "unset"),
            f.trace \o w.trace \o <<"save:BMP">>,
            f.is_svg, w.img, rgb, o, {}, f.after, f.probed, f.parsed)

\* Line 726 with empty save_kwargs: Pillow cannot tell the format of a
\* BytesIO without one and raises ValueError (unknown file extension).
EncodeBareRejected(f, w, o) ==
    Res("raise", "ValueError", NoBytes, f.trace \o w.trace,
        f.is_svg, w.img, NoImg, o, {}, f.after, f.probed, f.parsed)

EncodeBare(f, w, o) ==
    Res("raise", "ValueError", NoBytes,
        f.trace \o w.trace \o <<"save:">>,
        f.is_svg, w.img, w.img, o, {}, f.after, f.probed, f.parsed)

\* Lines 692-736: what follows the WebP-input branch.
EncodeRest(f, fmt, lib, tools, quality, optimize, o) ==
    LET w == NativeWebpInput(f, lib, o)
    IN  CASE fmt \in JpegNames ->
               EncodeJpeg(f, w, tools, quality, optimize, o)
          [] fmt = "png" -> EncodePng(f, w, tools, optimize, o)
          [] fmt = "bmp" -> EncodeBmp(f, w, o)
          [] OTHER -> EncodeBare(f, w, o)

\* The whole of convert_img_format for call c, environment outcomes o, the
\* cached SVG answer sv, the libwebp handle, the tool map and the machine.
convert_img_format(c, o, sv, lib, tools, e) ==
    LET output_format_lower == FormatLower(c.output_format)
        f == Front(c.image_file, sv, e, o.pdf)
    IN  IF ~f.ok
        THEN Res("raise", f.err, NoBytes, f.trace, f.is_svg, NoImg, NoImg, o,
                 {}, f.after, f.probed, f.parsed)
        ELSE CASE output_format_lower = "avif" ->
                    EncodeAvif(f, c.quality, c.lossless, o)
               [] output_format_lower = "webp" ->
                    EncodeWebp(f, lib, c.quality, c.lossless, o)
               [] OTHER ->
                    EncodeRest(f, output_format_lower, lib, tools, c.quality,
                               c.optimize, o)

(***************************************************************************)
(* The read accessors, lines 240-265.  Each gives [val, alias]: the value  *)
(* returned, and which registry object the returned reference is ("none":  *)
(* a new object of the caller's own, or an immutable value).               *)
(***************************************************************************)
Ret(val, alias) == [val |-> val, alias |-> alias]

is_libwebp_available(lw) == Ret(lw # None, "none")

WebpDiagnosticsLive(werrs) == Ret(werrs, "libwebp_load_errors")

get_libwebp_diagnostics(werrs) == Ret(werrs, "none")

is_libavif_available(la, plugin) == Ret(la # None \/ plugin, "none")

get_libavif_diagnostics(aerrs, plugin) ==
    Ret(IF plugin THEN Append(aerrs, PluginRecord) ELSE aerrs, "none")

get_compression_tools(tools) == Ret(tools, "none")

Accessors ==
    {"is_libwebp_available", "get_libwebp_diagnostics",
     "is_libavif_available", "get_libavif_diagnostics",
     "get_compression_tools"}

\* What accessor a returns in the current state.
CallAccessor(a) ==
    CASE a = "is_libwebp_available" -> is_libwebp_available(libwebp)
      [] a = "get_libwebp_diagnostics" ->
            get_libwebp_diagnostics(libwebp_load_errors)
      [] a = "is_libavif_available" ->
            is_libavif_available(libavif, avif_plugin_available)
      [] a = "get_libavif_diagnostics" ->
            get_libavif_diagnostics(libavif_load_errors, avif_plugin_available)
      [] a = "get_compression_tools" ->
            get_compression_tools(compression_tools)

\* No accessor called yet; no object held.
NoFirst == [acc |-> None, val |-> <<>>]
NoHeld == [acc |-> None, val |-> <<>>, alias |-> "none", writes |-> 0]

\* What a caller does to an object it was handed: list.append, dict update.
Junk == [ok |-> FALSE, path |-> "written by the caller"]

MutateValue(a, v) ==
    IF a = "get_compression_tools"
    THEN [v EXCEPT !["mozjpeg"] = ~@]
    ELSE Append(v, Junk)

(***************************************************************************)
(* The machines and the inputs the model runs the program on.              *)
(***************************************************************************)
LibNames == {"webp", "libwebp", "avif", "libavif"}

Machine(windows, found, loadable, plugin, tools, svgdeps) ==
    [windows |-> windows, found |-> found, loadable |-> loadable,
     plugin |-> plugin, tools |-> tools, svgdeps |-> svgdeps]

NothingFound == [n \in LibNames |-> None]

\* Executable states: "absent" (not on PATH), "broken" (on PATH, the
\* --version probe fails or times out), "ok" (the probe exits 0).
ToolStates(cjpeg, mozjpeg, oxipng, optipng) ==
    [x \in Executables |->
        CASE x = "cjpeg" -> cjpeg [] x = "mozjpeg" -> mozjpeg
          [] x = "oxipng" -> oxipng [] x = "optipng" -> optipng]

JpegToolPairs ==
    {<<"absent", "absent">>, <<"ok", "absent">>, <<"absent", "ok">>}

\* Machines for the conversion claims: libwebp loadable or not from the
\* first manual path and every combination of optimizer flags where the SVG
\* dependencies are installed; two machines where they are not.
MainEnvs ==
    { Machine(FALSE, NothingFound, l, TRUE,
              ToolStates(j[1], j[2], ox, op), TRUE) :
        l \in {{}, {"libwebp.so"}}, j \in JpegToolPairs,
        ox \in {"absent", "ok"}, op \in {"absent", "ok"} }
    \cup
    { Machine(FALSE, NothingFound, l, FALSE,
              ToolStates("absent", "absent", "absent", "absent"), FALSE) :
        l \in {{}, {"libwebp.so"}} }

\* Pixels and pixel buffers.
Opaque == <<200, 100, 50, 255>>
Clear  == <<200, 100, 50, 0>>
Half   == <<200, 100, 50, 128>>
Rgb    == <<200, 100, 50>>

PngMagic  == <<Run("bad", 1), Run("bin", 7)>>
JpegMagic == <<Run("bad", 3), Run("bin", 1)>>
RiffMagic == <<Run("txt", 4), Run("bin", 4), Run("txt", 4)>>

PngRGBA  == Bytes(PngMagic, "raster", "PNG", "RGBA", <<Half>>)
PngRGBA2 == Bytes(PngMagic, "raster", "PNG", "RGBA", <<Clear, Opaque>>)
PngRGB   == Bytes(PngMagic, "raster", "PNG", "RGB", <<Rgb>>)
JpegRGB  == Bytes(JpegMagic, "raster", "JPEG", "RGB", <<Rgb>>)
WebpRGBA == Bytes(RiffMagic, "raster", "WEBP", "RGBA", <<Half>>)
WebpRGB  == Bytes(RiffMagic, "raster", "WEBP", "RGB", <<Rgb>>)
PngCut   == Bytes(PngMagic, "truncated", "PNG", "RGBA", <<>>)

SvgDoc(head) == Bytes(head, "svg", None, "RGB", <<Rgb>>)
SvgPlain   == SvgDoc(<<Run("svg", 4)>>)
SvgProlog  == SvgDoc(<<Run("xml", 5), Run("txt", 30), Run("svg", 4)>>)
SvgIndent  == SvgDoc(<<Run("ws", 3), Run("svg", 4)>>)
SvgBadByte == SvgDoc(<<Run("bad", 2), Run("svg", 4)>>)
SvgFits    == SvgDoc(<<Run("ws", SniffLen - 4), Run("svg", 4)>>)
SvgCut     == SvgDoc(<<Run("ws", SniffLen - 3), Run("svg", 4)>>)
SvgLate    == SvgDoc(<<Run("ws", SniffLen), Run("xml", 5)>>)
SvgComment == SvgDoc(<<Run("txt", 12), Run("svg", 4)>>)

JunkText == Bytes(<<Run("txt", 5)>>, "junk", None, None, <<>>)
JunkSvg  == Bytes(<<Run("svg", 4), Run("txt", 3)>>, "junk", None, None, <<>>)
JunkBin  == Bytes(<<Run("bad", 4)>>, "junk", None, None, <<>>)

Rasters == {PngRGBA, PngRGBA2, PngRGB, JpegRGB, WebpRGBA, WebpRGB}

Contents ==
    Rasters \cup {PngCut, SvgPlain, SvgProlog, SvgIndent, SvgBadByte, SvgFits,
                  SvgCut, SvgLate, SvgComment, JunkText, JunkSvg, JunkBin,
                  EmptyBytes}

PhotoPng == <<"p", ".", "p", "n", "g">>
LogoSvg  == <<"l", ".", "s", "v", "g">>
LogoSVG  == <<"L", ".", "S", "V", "G">>
SvgNoDot == <<"s", "v", "g">>

\* Inputs converted to every target with every option.
CoreFiles ==
    { BytesArg(d) : d \in {PngRGBA, PngRGB, WebpRGBA, WebpRGB, SvgPlain,
                           JunkText, EmptyBytes} }
    \cup { StreamArg(PngRGBA, "end", TRUE, LogoSvg, "none"),
           StreamArg(PngRGBA2, "mid", FALSE, <<>>, "none") }

\* Inputs that vary the first bytes, the name and the stream: converted to
\* PNG and WEBP with the default options.
EdgeFiles ==
    { BytesArg(d) : d \in Contents }
    \cup { StreamArg(d, pos, FALSE, <<>>, "none") :
             d \in {PngRGBA, EmptyBytes}, pos \in {"start", "mid", "end"} }
    \cup { StreamArg(d, "end", TRUE, n, "none") :
             d \in {PngRGBA, SvgCut, JunkText},
             n \in {<<>>, PhotoPng, LogoSvg, LogoSVG, SvgNoDot} }
    \cup { StreamArg(PngRGBA, "start", FALSE, <<>>, flt) :
             flt \in {"seek", "read"} }

Files == CoreFiles \cup EdgeFiles

Targets == {"webp", "png", "jpeg", "JPG", "jfif", "bmp", "AVIF", "svg"}
Qualities == {0, DefaultQuality}

Call(op, file, fmt, quality, lossless, optimize) ==
    [op |-> op, image_file |-> file, output_format |-> fmt,
     quality |-> quality, lossless |-> lossless, optimize |-> optimize]

NoCall == Call(None, BytesArg(EmptyBytes), "", -1, FALSE, FALSE)

Calls ==
    { Call("convert_img_format", f, t, q, l, z) :
        f \in CoreFiles, t \in Targets, q \in Qualities,
        l \in BOOLEAN, z \in BOOLEAN }
    \cup
    { Call("convert_img_format", f, t, DefaultQuality, FALSE, FALSE) :
        f \in EdgeFiles, t \in {"png", "WEBP"} }

NoOutcome == Outcome("na", "na", "na", "na", "na")

NoRes ==
    Res(None, "", NoBytes, <<>>, FALSE, NoImg, NoImg, NoOutcome, {}, None,
        FALSE, FALSE)

(***************************************************************************)
(* What the environment may do during a call, given how far the call gets. *)
(***************************************************************************)
PdfOutcomes(c, sv, e) ==
    LET rd == ReadInput(c.image_file)
    IN  IF rd.ok /\ SniffSvg(rd.data, c.image_file) /\ rd.data.kind = "svg"
           /\ check_svg_support(sv, e).available
        THEN {"ok", "no_pages"} ELSE {"na"}

AvifOutcomes(c, f) ==
    IF f.ok /\ FormatLower(c.output_format) = "avif"
    THEN {"ok", "raise"} ELSE {"na"}

EncOutcomes(c, f, lib) ==
    IF f.ok /\ FormatLower(c.output_format) = "webp" /\ lib # None
    THEN {"ok", "zero", "raise"} ELSE {"na"}

DecOutcomes(c, f, lib) ==
    IF f.ok /\ FormatLower(c.output_format) \notin {"avif", "webp"}
       /\ f.canon.format = "WEBP" /\ lib # None
    THEN {"ok", "bad_header", "raise", "null_zeros", "null_heap"}
    ELSE {"na"}

\* An executable that is not on PATH cannot be started.
OptOutcomes(c, f, dec, tools, e) ==
    LET fmt == FormatLower(c.output_format)
    IN  IF ~f.ok \/ ~c.optimize THEN {"na"}
        ELSE IF fmt \in JpegNames /\ tools["mozjpeg"]
        THEN {"write_fails", "out_create_fails", "tool_fails"}
             \cup (IF e.tools["cjpeg"] = "absent" THEN {}
                   ELSE {"ok", "empty", "read_fails", "hang"})
        ELSE IF fmt = "png" /\ tools[PickPngTool(tools)]
        THEN {"ok", "write_fails", "tool_fails", "read_fails", "hang"}
        ELSE {"na"}

(***************************************************************************)
(* Actions.                                                                *)
(***************************************************************************)
callvars == <<call, result>>
accvars == <<first_ret, held>>

InitWith(envs) ==
    /\ env \in envs
    /\ phase = "load_webp"
    /\ libwebp = None
    /\ libavif = None
    /\ libwebp_load_errors = <<>>
    /\ libavif_load_errors = <<>>
    /\ compression_tools = [t \in ToolFlags |-> FALSE]
    /\ svg_available = None
    /\ call = NoCall
    /\ result = NoRes
    /\ first_ret = NoFirst
    /\ held = NoHeld

\* Lines 40-92.
ImportWebp ==
    /\ phase = "load_webp"
    /\ LET r == LoadLibwebp(env, libwebp_load_errors)
       IN  /\ libwebp' = r.lib
           /\ libwebp_load_errors' = r.trail
    /\ phase' = "load_avif"
    /\ UNCHANGED <<env, libavif, libavif_load_errors, compression_tools,
                   svg_available, callvars, accvars>>

\* Lines 160-220.
ImportAvif ==
    /\ phase = "load_avif"
    /\ LET r == LoadLibavif(env, libwebp_load_errors, libavif_load_errors)
       IN  /\ libavif' = r.lib
           /\ libwebp_load_errors' = r.wtrail
           /\ libavif_load_errors' = r.atrail
    /\ phase' = "check_tools"
    /\ UNCHANGED <<env, libwebp, compression_tools, svg_available,
                   callvars, accvars>>

\* Lines 234-237.
ImportTools ==
    /\ phase = "check_tools"
    /\ compression_tools' = CheckCompressionTools(env)
    /\ phase' = "ready"
    /\ UNCHANGED <<env, libwebp, libavif, libwebp_load_errors,
                   libavif_load_errors, svg_available, callvars, accvars>>

\* One call of convert_img_format, from entry to return, raise or
\* the point where it blocks.
ConvertCall(c) ==
    /\ phase = "ready"
    /\ \E pdf \in PdfOutcomes(c, svg_available, env) :
         LET f == Front(c.image_file, svg_available, env, pdf)
         IN  \E avif \in AvifOutcomes(c, f), enc \in EncOutcomes(c, f, libwebp),
                dec \in DecOutcomes(c, f, libwebp) :
               \E opt \in OptOutcomes(c, f, dec, compression_tools, env) :
                 LET r == convert_img_format(c, Outcome(pdf, avif, enc, dec, opt),
                                             svg_available, libwebp,
                                             compression_tools, env)
                 IN  /\ call' = c
                     /\ result' = r
                     /\ svg_available' = r.after
                     /\ phase' = IF r.kind = "hang"
                                 THEN "stopped" ELSE "done"
    /\ UNCHANGED <<env, registry, accvars>>

Convert == \E c \in Calls : ConvertCall(c)

\* The caller takes the result (or catches the exception).
Return ==
    /\ phase = "done"
    /\ phase' = "ready"
    /\ call' = NoCall
    /\ result' = NoRes
    /\ UNCHANGED <<env, registry, svg_available, accvars>>

Init == InitWith(MainEnvs)

Next == ImportWebp \/ ImportAvif \/ ImportTools \/ Convert \/ Return

Spec == Init /\ [][Next]_vars

\* The program with its steps taken whenever one is possible: the
\* interpreter runs, callers keep calling, a subprocess that exits is seen
\* to exit.  Nothing in the code ends a wait on a subprocess that does not
\* exit: subprocess.run is called without a timeout at lines 410, 413, 460.
\* Machines with each optimizer present or not; calls to the targets that
\* start one.
LiveEnvs ==
    { Machine(FALSE, NothingFound, {}, TRUE,
              ToolStates(cj, "absent", ox, op), TRUE) :
        cj \in {"absent", "ok"}, ox \in {"absent", "ok"},
        op \in {"absent", "ok"} }

LiveCalls ==
    { Call("convert_img_format", BytesArg(d), t, DefaultQuality, FALSE, z) :
        d \in {PngRGBA, JpegRGB, SvgPlain}, t \in {"png", "jpeg", "bmp"},
        z \in BOOLEAN }

ConvertLive == \E c \in LiveCalls : ConvertCall(c)

InitLive == InitWith(LiveEnvs)

NextLive == ImportWebp \/ ImportAvif \/ ImportTools \/ ConvertLive \/ Return

SpecLive == InitLive /\ [][NextLive]_vars /\ WF_vars(NextLive)

(***************************************************************************)
(* The SVG specification: machines with and without the optional SVG       *)
(* packages, direct calls of rasterize_svg with target sizes, and          *)
(* convert_img_format calls that do and do not reach the rasterizer.       *)
(***************************************************************************)
SvgEnvs ==
    { Machine(FALSE, NothingFound, {}, TRUE,
              ToolStates("absent", "absent", "absent", "absent"), d) :
        d \in BOOLEAN }

\* Intrinsic sizes of the drawings, and the width and height arguments (0:
\* not given).
IntrinsicSizes == {0, 3, 5, 7}
TargetSizes == {0, 1, 29}

\* rasterize_svg(svg_data, width, height); drawing is what svg2rlg makes of
\* svg_data.
SizedCall(d, drawing, width, height) ==
    [op |-> "rasterize_svg", image_file |-> BytesArg(d),
     drawing |-> drawing, width |-> width, height |-> height]

SizedCalls ==
    { SizedCall(SvgPlain, Drawing(iw, ih), w, h) :
        iw \in IntrinsicSizes, ih \in IntrinsicSizes,
        w \in TargetSizes, h \in TargetSizes }
    \cup { SizedCall(JunkText, NoDrawing, 0, 0) }

\* One call of rasterize_svg(svg_data, width, height), from entry to return
\* or raise.
RasterizeSized(c) ==
    /\ phase = "ready"
    /\ \E pdf \in (IF c.image_file.data.kind = "svg"
                      /\ check_svg_support(svg_available, env).available
                   THEN {"ok", "no_pages"} ELSE {"na"}) :
         LET r == rasterize_svg_sized(c.image_file.data, c.drawing, c.width,
                                      c.height, svg_available, env, pdf)
         IN  /\ call' = c
             /\ result' = [kind |-> IF r.ok THEN "return" ELSE "raise",
                           err |-> IF r.ok THEN "" ELSE "RuntimeError",
                           img |-> r.img, after |-> r.after,
                           probed |-> r.probed, parsed |-> r.parsed,
                           scaled |-> r.scaled, page |-> r.page]
             /\ svg_available' = r.after
             /\ phase' = "done"
    /\ UNCHANGED <<env, registry, accvars>>

SvgConvertCalls ==
    { Call("convert_img_format", BytesArg(d), "png", DefaultQuality, FALSE,
           FALSE) : d \in {SvgPlain, PngRGBA} }

RasterizeAny == \E c \in SizedCalls : RasterizeSized(c)

ConvertSvg == \E c \in SvgConvertCalls : ConvertCall(c)

InitSvg == InitWith(SvgEnvs)

NextSvg ==
    \/ ImportWebp \/ ImportAvif \/ ImportTools
    \/ RasterizeAny \/ ConvertSvg \/ Return

SpecSvg == InitSvg /\ [][NextSvg]_vars

(***************************************************************************)
(* The registry specification: machines that vary what find_library and    *)
(* the loader find, callers that read the accessors and write to what they *)
(* were handed, between calls of convert_img_format and rasterize_svg.     *)
(***************************************************************************)
FoundWebp == "/usr/lib64/libwebp.so.7"
FoundAvif == "/usr/lib64/libavif.so.16"

FoundMaps ==
    { [n \in LibNames |->
         CASE n = "webp" -> w [] n = "avif" -> a [] OTHER -> None] :
        w \in {None, FoundWebp}, a \in {None, FoundAvif} }

ManualCandidates ==
    { WebpSearchPaths(FALSE)[i] : i \in 1..MaxLoadable }
    \cup { AvifSearchPaths(FALSE)[i] : i \in 1..MaxLoadable }

RegistryEnvs ==
    UNION { { Machine(FALSE, fm, l, b,
                      IF b THEN ToolStates("absent", "ok", "ok", "absent")
                      ELSE ToolStates("absent", "absent", "absent", "absent"),
                      b) :
                l \in SUBSET (ManualCandidates
                              \cup ({fm["webp"], fm["avif"]} \ {None})),
                b \in BOOLEAN } :
            fm \in FoundMaps }

\* A caller calls accessor a.  The first call of the process is remembered;
\* a returned list or dict is kept by the caller.
Accessor(a) ==
    /\ phase = "ready"
    /\ LET r == CallAccessor(a)
       IN  /\ first_ret' = IF first_ret.acc = None
                           THEN [acc |-> a, val |-> r.val] ELSE first_ret
           /\ held' = IF a \in {"get_libwebp_diagnostics",
                                "get_libavif_diagnostics",
                                "get_compression_tools"}
                      THEN [acc |-> a, val |-> r.val, alias |-> r.alias,
                            writes |-> 0]
                      ELSE held
    /\ UNCHANGED <<env, phase, registry, svg_available, callvars>>

CallAnAccessor == \E a \in Accessors : Accessor(a)

\* The caller writes to the object it holds.  If that object is one of the
\* registry's own, the registry changes with it.
CallerMutate ==
    /\ phase = "ready"
    /\ held.acc # None
    /\ held.writes < MaxMutations
    /\ held' = [held EXCEPT !.val = MutateValue(held.acc, @),
                            !.writes = @ + 1]
    /\ libwebp_load_errors' =
         IF held.alias = "libwebp_load_errors"
         THEN MutateValue(held.acc, libwebp_load_errors)
         ELSE libwebp_load_errors
    /\ libavif_load_errors' =
         IF held.alias = "libavif_load_errors"
         THEN MutateValue(held.acc, libavif_load_errors)
         ELSE libavif_load_errors
    /\ compression_tools' =
         IF held.alias = "compression_tools"
         THEN MutateValue(held.acc, compression_tools)
         ELSE compression_tools
    /\ UNCHANGED <<env, phase, libwebp, libavif, svg_available, callvars,
                   first_ret>>

\* One direct call of rasterize_svg(svg_data), as app.py makes for preview.
RasterizeCall(c) ==
    /\ phase = "ready"
    /\ \E pdf \in (IF c.image_file.data.kind = "svg"
                      /\ check_svg_support(svg_available, env).available
                   THEN {"ok", "no_pages"} ELSE {"na"}) :
         LET r == rasterize_svg(c.image_file.data, svg_available, env, pdf)
         IN  /\ call' = c
             /\ result' = Res(IF r.ok THEN "return" ELSE "raise",
                              IF r.ok THEN "" ELSE "RuntimeError",
                              NoBytes, <<"rasterize_svg">>, TRUE, NoImg, r.img,
                              Outcome(pdf, "na", "na", "na", "na"), {},
                              r.after,
                              r.probed, r.parsed)
             /\ svg_available' = r.after
             /\ phase' = "done"
    /\ UNCHANGED <<env, registry, accvars>>

RegistryCalls ==
    { Call("convert_img_format", f, t, DefaultQuality, FALSE, TRUE) :
        f \in {BytesArg(WebpRGBA), BytesArg(SvgPlain)},
        t \in {"bmp", "AVIF"} }

RasterizeCalls ==
    { Call("rasterize_svg", BytesArg(d), "", -1, FALSE, FALSE) :
        d \in {SvgProlog} }

ConvertSome == \E c \in RegistryCalls : ConvertCall(c)

RasterizeSome == \E c \in RasterizeCalls : RasterizeCall(c)

InitRegistry == InitWith(RegistryEnvs)

NextRegistry ==
    \/ ImportWebp \/ ImportAvif \/ ImportTools
    \/ ConvertSome \/ RasterizeSome \/ Return
    \/ CallAnAccessor \/ CallerMutate

SpecRegistry == InitRegistry /\ [][NextRegistry]_vars

(***************************************************************************)
(* The pixel-level specification: the same program on two machines (no     *)
(* backend at all, every backend present), converting small RGBA images    *)
(* whose pixels sweep colours and alpha values to JPEG, BMP and PNG.       *)
(***************************************************************************)
PixelEnvs ==
    { Machine(FALSE, NothingFound, {}, FALSE,
              ToolStates("absent", "absent", "absent", "absent"), FALSE),
      Machine(FALSE, NothingFound, {"libwebp.so"}, TRUE,
              ToolStates("ok", "absent", "ok", "absent"), TRUE) }

Colours ==
    {<<0, 0, 0>>, <<255, 255, 255>>, <<255, 0, 0>>, <<1, 100, 254>>,
     <<200, 100, 50>>}
Alphas == {0, 1, 127, 128, 254, 255}

SweepPixels == { <<c[1], c[2], c[3], a>> : c \in Colours, a \in Alphas }
FewPixels == {<<255, 0, 0, 255>>, <<1, 100, 254, 0>>, <<200, 100, 50, 128>>}

PixelBuffers ==
    { <<p>> : p \in SweepPixels }
    \cup UNION { [1..n -> FewPixels] : n \in 2..MaxPixels }

PixelFiles ==
    { BytesArg(Bytes(PngMagic, "raster", "PNG", "RGBA", px)) :
        px \in PixelBuffers }
    \cup { BytesArg(Bytes(RiffMagic, "raster", "WEBP", "RGBA", px)) :
             px \in PixelBuffers }

PixelCalls ==
    { Call("convert_img_format", f, t, q, l, z) :
        f \in PixelFiles, t \in {"jpeg", "bmp"}, q \in Qualities,
        l \in BOOLEAN, z \in BOOLEAN }
    \cup
    { Call("convert_img_format", f, "png", DefaultQuality, FALSE, FALSE) :
        f \in PixelFiles }

ConvertPixel == \E c \in PixelCalls : ConvertCall(c)

InitPixel == InitWith(PixelEnvs)

NextPixel ==
    ImportWebp \/ ImportAvif \/ ImportTools \/ ConvertPixel \/ Return

SpecPixel == InitPixel /\ [][NextPixel]_vars

(***************************************************************************)
(* Claims.  A finished call is in phase "done" (it returned or raised) or  *)
(* "stopped" (it waits for a tool that never exits).                       *)
(***************************************************************************)
Converted == phase \in {"done", "stopped"} /\ call.op = "convert_img_format"
Target == FormatLower(call.output_format)

\* the call got as far as choosing an encoder
Encoding == Converted /\ result.canon # NoImg

\* the input is a raster image Pillow decodes, read without a stream fault
ValidRaster ==
    /\ call.image_file.data.kind = "raster"
    /\ call.image_file.fault = "none"

\* the FormatTag of a target string
TagOf(t) ==
    CASE t \in JpegNames -> "JPEG" [] t = "png" -> "PNG" [] t = "bmp" -> "BMP"
      [] t = "webp" -> "WEBP" [] t = "avif" -> "AVIF" [] t = "svg" -> "SVG"
      [] OTHER -> None

SixTargets == {"png", "bmp", "webp", "avif", "svg"} \cup JpegNames

ReturnsAs(tag) ==
    /\ result.kind = "return"
    /\ result.out # NoBytes
    /\ result.out.px # <<>>
    /\ result.out.fmt = tag

\* C1 as stated: every valid raster input, each of the six targets, every
\* backend configuration: a non-empty buffer in the requested container.
C1_SixTargetsAlwaysEncode ==
    (Converted /\ ValidRaster /\ Target \in SixTargets)
        => ReturnsAs(TagOf(Target))

\* C1 amended: a valid raster input that the sniff classifies as raster
\* (it carries no .svg file name), in every backend configuration: PNG,
\* JPEG, BMP and WEBP give a non-empty buffer in the requested container,
\* unless the call is one with optimize set to JPEG or PNG whose external
\* optimizer does not exit, which waits on it; AVIF gives the buffer when
\* Pillow's AVIF writer does not raise and is a RuntimeError when it does;
\* SVG is no encodable target and is a ValueError.
C1_RasterTargetsEncode ==
    (Converted /\ ValidRaster /\ ~result.is_svg /\ Target \in SixTargets)
        => CASE Target = "svg" ->
                    result.kind = "raise" /\ result.err = "ValueError"
             [] Target = "avif" /\ result.o.avif = "raise" ->
                    result.kind = "raise" /\ result.err = "RuntimeError"
             [] result.kind = "hang" ->
                    /\ call.optimize
                    /\ Target \in JpegNames \cup {"png"}
                    /\ result.o.opt = "hang"
             [] OTHER -> ReturnsAs(TagOf(Target))

C1_Witness ==
    /\ Converted /\ ValidRaster /\ ~result.is_svg /\ phase = "done"
    /\ Target = "jpeg" /\ result.o.opt = "empty"
    /\ ReturnsAs("JPEG")

\* C2: empty bytes, or a stream that holds no bytes, is a ValueError raised
\* before the sniff, any decoder, any encoder and any external tool.
C2_EmptyInputRaisesFirst ==
    (Converted /\ call.image_file.data.kind = "empty")
        => /\ result.kind = "raise"
           /\ result.err = "ValueError"
           /\ result.trace = <<>>

C2_Witness ==
    /\ Converted
    /\ call.image_file.stream
    /\ call.image_file.data.kind = "empty"
    /\ call.image_file.pos = "mid"
    /\ result.err = "ValueError"

\* C3: target WEBP: the native encoder's bytes (lossless entry point when
\* lossless, else lossy with quality) exactly when libwebp is loaded and the
\* native call gives a non-zero length without raising; otherwise Pillow's
\* WEBP writer with the same quality and lossless; never an exception.
C3_WebpNativeOrFallback ==
    (Encoding /\ Target = "webp")
        => /\ result.kind = "return"
           /\ IF libwebp # None /\ result.o.enc = "ok"
              THEN result.out =
                     IF call.lossless
                     THEN Encoded("libwebp", "WEBP", result.canon, -1,
                                  "True", "unset")
                     ELSE Encoded("libwebp", "WEBP", result.canon,
                                  call.quality, "False", "unset")
              ELSE result.out =
                     Encoded("PIL", "WEBP", result.canon, call.quality,
                             BoolStr(call.lossless), "unset")

C3_Witness ==
    /\ Encoding /\ Target = "webp" /\ libwebp # None
    /\ result.o.enc = "zero" /\ call.lossless
    /\ result.out.by = "PIL"

\* C4: targets jpeg, jpg, jfif in any letter case: the external encoder's
\* output only when optimize is set, the registry flags the tool and the
\* subprocess exits cleanly; without optimize, without the tool or when the
\* subprocess fails, Pillow's JPEG writer with the given quality and its
\* optimize flag on; the tool never makes the call fail.
ToolFailures == {"write_fails", "out_create_fails", "tool_fails", "read_fails"}

C4_JpegToolOrFallback ==
    (Encoding /\ Target \in JpegNames /\ phase = "done")
        => /\ result.kind = "return"
           /\ result.out.by = "cjpeg"
                => /\ call.optimize
                   /\ compression_tools["mozjpeg"]
                   /\ result.o.opt = "ok"
           /\ (~call.optimize \/ ~compression_tools["mozjpeg"]
               \/ result.o.opt \in ToolFailures)
                => result.out = Encoded("PIL", "JPEG", result.img,
                                        call.quality, "unset", "True")

C4_Witness ==
    /\ Encoding /\ call.output_format = "JPG" /\ phase = "done"
    /\ call.optimize /\ compression_tools["mozjpeg"]
    /\ result.o.opt = "tool_fails"
    /\ result.out.by = "PIL"

\* C5: target PNG: Pillow writes the bytes first; an external optimizer runs
\* only with optimize set and a PNG optimizer available, oxipng whenever it
\* is available and optipng only when oxipng is not, at most one per call;
\* when the tool fails the result is the bytes Pillow wrote and the call
\* does not fail.
ToolsRun == SelectSeq(result.trace, LAMBDA x : x \in Executables)

C5_PngOptimizerChoice ==
    (Encoding /\ Target = "png")
        => LET pre == Encoded("PIL", "PNG", result.img, -1, "unset", "True")
           IN  /\ Len(ToolsRun) <= 1
               /\ ToolsRun # <<>>
                    => /\ call.optimize
                       /\ result.trace[Len(result.trace) - 1] = "optimize_png"
                       /\ result.trace[Len(result.trace) - 2] = "save:PNG"
                       /\ ToolsRun[1] = IF compression_tools["oxipng"]
                                        THEN "oxipng" ELSE "optipng"
                       /\ compression_tools[ToolsRun[1]]
               /\ phase = "done" => result.kind = "return"
               /\ (phase = "done" /\ (ToolsRun = <<>>
                                      \/ result.o.opt \in ToolFailures))
                    => result.out = pre

C5_Witness ==
    /\ Encoding /\ Target = "png" /\ call.optimize
    /\ ~compression_tools["oxipng"] /\ compression_tools["optipng"]
    /\ result.o.opt = "tool_fails"
    /\ ToolsRun = <<"optipng">>
    /\ result.out.by = "PIL"

\* C6: target AVIF: Pillow's AVIF writer and nothing else; lossless gives
\* the writer quality 100 and the lossless flag whatever quality was passed,
\* otherwise quality is passed unchanged; when the writer raises the call
\* raises RuntimeError and tries nothing else.
C6_AvifWriterOnly ==
    (Encoding /\ Target = "avif")
        => /\ result.trace[Len(result.trace)] = "save:AVIF"
           /\ \A i \in 1..Len(result.trace) :
                /\ result.trace[i] \notin
                     (Executables \cup {"encode_to_webp", "decode_from_webp",
                                        "optimize_png", "optimize_jpeg_mozjpeg"})
                /\ (i < Len(result.trace)
                      => result.trace[i] \in {"sniff", "Image.open",
                                              "rasterize_svg"})
           /\ IF result.o.avif = "raise"
              THEN result.kind = "raise" /\ result.err = "RuntimeError"
              ELSE /\ result.kind = "return"
                   /\ result.out =
                        IF call.lossless
                        THEN Encoded("PIL", "AVIF", result.canon, 100,
                                     "True", "unset")
                        ELSE Encoded("PIL", "AVIF", result.canon,
                                     call.quality, "unset", "unset")

C6_Witness ==
    /\ Encoding /\ Target = "avif" /\ call.lossless /\ call.quality = 0
    /\ result.kind = "return" /\ result.out.quality = 100
    /\ libwebp # None /\ result.canon.format = "WEBP"

\* The input was read: the sniff has something to look at.
Sniffed ==
    /\ Converted
    /\ call.image_file.data.kind # "empty"
    /\ call.image_file.fault = "none"

\* The first 200 bytes, as text and trimmed, begin with "<?xml" or "<svg":
\* the literal is whole within the first SniffLen bytes and only whitespace
\* and undecodable bytes come before it.
BeginsWithSvgMarkup(h) ==
    \E i \in 1..Len(h) :
        /\ h[i].t \in {"xml", "svg"}
        /\ \A j \in 1..(i - 1) : h[j].t \in {"ws", "bad"}
        /\ HeadLen(SubSeq(h, 1, i)) <= SniffLen

\* An input classified SVG goes to the rasterizer only, any other to the
\* raster decoder only, and the sniff itself never ends the call.
RoutedBySniff ==
    /\ Len(result.trace) >= 2
    /\ result.trace[1] = "sniff"
    /\ IF result.is_svg
       THEN result.trace = <<"sniff", "rasterize_svg">>
            \/ (result.trace[2] = "rasterize_svg"
                /\ \A i \in 1..Len(result.trace) :
                     result.trace[i] # "Image.open")
       ELSE /\ result.trace[2] = "Image.open"
            /\ \A i \in 1..Len(result.trace) :
                 result.trace[i] # "rasterize_svg"

\* C9 as stated: SVG exactly when the first 200 bytes, as text and trimmed,
\* begin with an XML declaration or an <svg tag, or else a file name is
\* available and ends in ".svg"; anything else is RASTER; routed accordingly.
C9_SniffByNameExact ==
    Sniffed
        => /\ result.is_svg
                <=> \/ BeginsWithSvgMarkup(call.image_file.data.head)
                    \/ (call.image_file.hasName
                        /\ EndsWith(call.image_file.name, DotSvg))
           /\ RoutedBySniff

\* C9 amended: the same, the file name compared in lower case (it ends in
\* ".svg" in any letter case).
C9_SniffByNameAnyCase ==
    Sniffed
        => /\ result.is_svg
                <=> \/ BeginsWithSvgMarkup(call.image_file.data.head)
                    \/ (call.image_file.hasName
                        /\ Len(call.image_file.name) >= 4
                        /\ LET n == call.image_file.name
                               k == Len(n)
                           IN  /\ n[k - 3] = "."
                               /\ n[k - 2] \in {"s", "S"}
                               /\ n[k - 1] \in {"v", "V"}
                               /\ n[k] \in {"g", "G"})
           /\ RoutedBySniff

C9_Witness ==
    /\ Sniffed
    /\ call.image_file.data = SvgCut
    /\ call.image_file.name = LogoSVG
    /\ result.is_svg
    /\ result.trace = <<"sniff", "rasterize_svg">>

\* C7: JPEG targets: the RGB buffer handed to the encoder is the canonical
\* RGBA buffer composited over opaque white with alpha as the weight: alpha 0
\* gives exactly (255,255,255), alpha 255 exactly the source colour, and in
\* between each channel lies between the source value and 255 and does not
\* decrease as alpha decreases.
C7_JpegFlattenOnWhite ==
    (Converted /\ Target \in JpegNames /\ result.img # NoImg)
        => /\ result.img.mode = "RGB"
           /\ Len(result.img.px) = Len(result.canon.px)
           /\ result.kind = "return" => result.out.px = result.img.px
           /\ \A i \in 1..Len(result.canon.px) :
                LET p == result.canon.px[i]
                    q == result.img.px[i]
                IN  /\ Len(q) = 3
                    /\ p[4] = 0 => q = <<255, 255, 255>>
                    /\ p[4] = 255 => q = <<p[1], p[2], p[3]>>
                    /\ \A ch \in 1..3 :
                         /\ p[ch] <= q[ch] /\ q[ch] <= 255
                         /\ LET exact == p[ch] * p[4] + 255 * (255 - p[4])
                                d == 255 * q[ch] - exact
                            IN  2 * d <= 255 /\ 2 * d >= -255
                         /\ \A a \in 0..255 :
                              a < p[4] =>
                                FlattenPixel(<<p[1], p[2], p[3], a>>)[ch]
                                    >= q[ch]

C7_Witness ==
    /\ Converted /\ Target \in JpegNames /\ result.kind = "return"
    /\ result.canon.px = <<<<1, 100, 254, 127>>>>
    /\ result.out.px = <<<<128, 178, 255>>>>
    /\ result.out.by = "cjpeg"

\* C8: target BMP: alpha is dropped without blending: every output pixel is
\* the canonical pixel's (R,G,B) whatever its alpha, the output has three
\* channels, and quality, lossless and optimize do not change the result.
C8_BmpDropsAlpha ==
    (Encoding /\ Target = "bmp" /\ phase = "done")
        => /\ result.kind = "return"
           /\ result.out.by = "PIL"
           /\ result.out.fmt = "BMP"
           /\ result.out.mode = "RGB"
           /\ result.out.px =
                [i \in 1..Len(result.canon.px) |->
                    <<result.canon.px[i][1], result.canon.px[i][2],
                      result.canon.px[i][3]>>]
           /\ result.out.quality = -1
           /\ result.out.lossless = "unset"
           /\ result.out.optimize = "unset"

C8_Witness ==
    /\ Encoding /\ Target = "bmp" /\ phase = "done"
    /\ call.quality = 0 /\ call.lossless /\ call.optimize
    /\ result.canon.px = <<<<1, 100, 254, 0>>>>
    /\ result.out.px = <<<<1, 100, 254>>>>

\* C10: once the registry is initialised, no sequence of convert_img_format,
\* rasterize_svg and accessor calls, and no write by a caller to a value an
\* accessor returned, changes what the accessors return: a later call gives
\* a value equal to the one the first call gave.
C10_AccessorsKeepReturning ==
    first_ret.acc # None
        => CallAccessor(first_ret.acc).val = first_ret.val

C10_Witness ==
    /\ first_ret.acc = "get_libwebp_diagnostics"
    /\ held.acc = "get_libwebp_diagnostics"
    /\ held.writes = 1
    /\ held.val # first_ret.val
    /\ first_ret.val # <<>>
    /\ phase = "done"
    /\ call.op = "convert_img_format"
    /\ result.kind = "return"

\* The same call made with the stream at its start.
Rewound(c) == [c EXCEPT !.image_file.pos = "start"]

\* A step that is one whole call of convert_img_format.
ConvertStep ==
    /\ phase = "ready"
    /\ phase' \in {"done", "stopped"}
    /\ call'.op = "convert_img_format"

\* C11: with a repositionable stream the result does not depend on where the
\* stream stands when the call is made: a stream already read in part or to
\* its end gives, in the same environment, the outcome of a fresh one.
C11_StreamPositionIgnored ==
    [][(ConvertStep /\ call'.image_file.stream
          /\ call'.image_file.fault = "none")
         => result' = convert_img_format(Rewound(call'), result'.o,
                                         svg_available, libwebp,
                                         compression_tools, env)]_vars

C11_Witness ==
    /\ Converted
    /\ call.image_file.stream
    /\ call.image_file.pos = "end"
    /\ call.image_file.data = PngRGBA
    /\ ~call.image_file.hasName
    /\ result.kind = "return"
    /\ result.canon.px = PngRGBA.px

\* What Pillow reads back from a buffer a PNG writer produced: a PNG keeps
\* the mode and every sample of the image it was written from.
DecodePng(b) ==
    ToRGBA(PilOpen(Bytes(PngMagic, "raster", b.fmt, b.mode, b.px)).img)

\* The canonical RGBA decode of the input bytes: Pillow's image, RGBA.
CanonicalDecode(file) == ToRGBA(PilOpen(ReadInput(file).data).img)

\* C12: round trip through PNG: for every raster input the image handed to
\* the PNG writer is the canonical RGBA decode of the input, same size and
\* every channel of every pixel, nothing flattened and no channel dropped;
\* decoding the PNG result gives a buffer pixel-identical to that decode.
C12_PngRoundTrip ==
    (Encoding /\ ValidRaster /\ ~result.is_svg /\ Target = "png")
        => /\ result.img.mode = "RGBA"
           /\ result.img.px = CanonicalDecode(call.image_file).px
           /\ \A i \in 1..Len(result.img.px) : Len(result.img.px[i]) = 4
           /\ result.kind = "return"
                => /\ result.out.fmt = "PNG"
                   /\ DecodePng(result.out).mode = "RGBA"
                   /\ DecodePng(result.out).px =
                        CanonicalDecode(call.image_file).px

\* A WEBP input with alpha for which WebPDecodeRGBA returns a null pointer:
\* the PNG that comes back holds memory that was never written.
C12_Witness ==
    /\ Encoding /\ ValidRaster /\ ~result.is_svg /\ Target = "png"
    /\ call.image_file.data = WebpRGBA
    /\ result.o.dec = "null_heap"
    /\ result.kind = "return"
    /\ result.out.fmt = "PNG"
    /\ DecodePng(result.out).px = <<Uninitialized("null_heap")>>
    /\ CanonicalDecode(call.image_file).px = <<Half>>

\* The target strings that have a branch of their own.
KnownTargets == {"webp", "png", "avif", "bmp"} \cup JpegNames

\* C13: a target outside webp, png, jpeg, jpg, jfif, bmp, avif is not
\* rejected as such: no native encode and no external optimizer is invoked,
\* nothing is flattened and no channel is dropped, and the canonical buffer
\* goes to Pillow's save with no format-specific option, a bare save.
C13_UnknownTargetBareSave ==
    (Encoding /\ Target \notin KnownTargets)
        => /\ \A i \in 1..Len(result.trace) :
                result.trace[i] \notin
                    (Executables \cup {"encode_to_webp", "optimize_png",
                                       "optimize_jpeg_mozjpeg"})
           /\ result.img.mode = "RGBA"
           /\ result.img.px = result.canon.px
           /\ result.trace[Len(result.trace)] = "save:"
           /\ \A i \in 1..(Len(result.trace) - 1) :
                result.trace[i] \in {"sniff", "Image.open", "rasterize_svg",
                                     "decode_from_webp"}
           /\ result.left = {}
           \* the save itself: Pillow has no format to write a BytesIO in
           /\ result.kind = "raise" /\ result.err = "ValueError"

C13_Witness ==
    /\ Encoding /\ Target = "svg"
    /\ call.image_file.data = PngRGBA
    /\ call.optimize /\ compression_tools["oxipng"] /\ libwebp # None
    /\ result.trace = <<"sniff", "Image.open", "save:">>
    /\ result.img.px = PngRGBA.px

InTrace(x) == \E i \in 1..Len(result.trace) : result.trace[i] = x

\* The bytes Pillow opened are in a WEBP container.
WebpInput ==
    /\ ValidRaster /\ ~result.is_svg
    /\ call.image_file.data.container = "WEBP"

\* C14: whenever the input's container is WEBP and libwebp is loaded, the
\* pixels that are encoded come from the native decode of the input bytes,
\* unless that decode fails: for every target, and for WEBP inputs with and
\* without an alpha channel.
C14_NativeDecodeForWebpInput ==
    (Encoding /\ WebpInput /\ libwebp # None)
        => /\ InTrace("decode_from_webp")
           /\ result.o.dec = "ok" => result.img.src = "libwebp"

\* A WEBP input without alpha, libwebp loaded, target PNG: Pillow's pixels
\* are encoded and the native decoder is never called.
C14_Witness ==
    /\ Encoding /\ WebpInput /\ libwebp # None
    /\ call.image_file.data = WebpRGB
    /\ Target = "png"
    /\ result.kind = "return"
    /\ ~InTrace("decode_from_webp")
    /\ result.img.src = "PIL"

NativeDecodeFailures == {"bad_header", "raise", "null_zeros", "null_heap"}

\* C15: any failure of the native WebP decode (header rejected, null pointer
\* returned by the decode call, error raised by the native call) is
\* absorbed: the native result is discarded, the conversion goes on with
\* Pillow's decode of the same bytes normalised to RGBA, and the call
\* neither raises nor aborts because of it.
C15_NativeDecodeFailureAbsorbed ==
    (Encoding /\ InTrace("decode_from_webp")
       /\ result.o.dec \in NativeDecodeFailures)
        => /\ result.canon.src = "PIL"
           /\ result.canon.mode = "RGBA"
           /\ result.canon.px = CanonicalDecode(call.image_file).px
           /\ InTrace("Image.open")
           /\ result.kind = "raise" => Target \notin KnownTargets

\* WebPDecodeRGBA returned a null pointer and the call went on with it: the
\* BMP that comes back is made of bytes nobody wrote.
C15_Witness ==
    /\ Encoding /\ Target = "bmp"
    /\ call.image_file.data = WebpRGBA
    /\ result.o.dec = "null_zeros"
    /\ result.kind = "return"
    /\ result.canon.src = "libwebp"
    /\ result.trace = <<"sniff", "Image.open", "decode_from_webp", "save:BMP">>
    /\ result.out.px = <<<<0, 0, 0>>>>

\* optimize_png or optimize_jpeg_mozjpeg was called and has returned.
OptimizerReturned ==
    /\ Converted /\ phase = "done"
    /\ InTrace("optimize_png") \/ InTrace("optimize_jpeg_mozjpeg")

\* C16: after optimize_png or optimize_jpeg_mozjpeg returns, by any path
\* (tool success, non-zero exit, failure writing the temp input file,
\* failure creating the second temp file, failure reading the result back),
\* no temporary file the call created still exists.
C16_NoTempFileLeft ==
    OptimizerReturned => result.left = {}

\* Writing the temp input file fails: the file stays on disk.
C16_Witness ==
    /\ OptimizerReturned
    /\ Target = "png"
    /\ result.o.opt = "write_fails"
    /\ result.kind = "return"
    /\ result.out.by = "PIL"
    /\ result.left = {"tmp_in.png"}

\* The paths a probe tries, in order: what find_library resolves each name
\* to, then the manual search paths.
ProbeCandidates(e, names, paths) ==
    SelectSeq([i \in 1..Len(names) |-> find_library(e, names[i])],
              LAMBDA x : x # None) \o paths

\* One record per load attempt, in attempt order, stopping at the first load
\* that succeeds.
RECURSIVE AttemptRecords(_, _, _)
AttemptRecords(e, cands, i) ==
    IF i > Len(cands) THEN <<>>
    ELSE IF CDLL(e, cands[i]) THEN <<LoadRecord(TRUE, cands[i])>>
    ELSE <<LoadRecord(FALSE, cands[i])>> \o AttemptRecords(e, cands, i + 1)

Probed == phase \notin {"load_webp", "load_avif"}

\* At most one success record in a trail, and nothing after it.
SuccessLast(trail) ==
    \A i \in 1..Len(trail) : trail[i].ok => i = Len(trail)

\* C17: each probe records its own attempts and only those: the WebP trail
\* holds one record per WebP load attempt, in order, and none of an AVIF
\* load attempt; the AVIF trail holds one record per AVIF load attempt,
\* failures included, in order; probing stops at the first success, so each
\* trail has at most one success record, with no attempt after it.
C17_ProbeTrails ==
    Probed
        => /\ libwebp_load_errors =
                AttemptRecords(env, ProbeCandidates(env, WebpNames,
                                   WebpSearchPaths(env.windows)), 1)
           /\ libavif_load_errors =
                AttemptRecords(env, ProbeCandidates(env, AvifNames,
                                   AvifSearchPaths(env.windows)), 1)
           /\ SuccessLast(libwebp_load_errors)
           /\ SuccessLast(libavif_load_errors)

\* find_library resolves 'avif' to a library that does not load: the failed
\* attempt is in the WebP trail, after the WebP success, and the AVIF trail
\* does not have it.
C17_Witness ==
    /\ Probed
    /\ libwebp = FoundWebp
    /\ libwebp_load_errors =
         <<LoadRecord(TRUE, FoundWebp), LoadRecord(FALSE, FoundAvif)>>
    /\ libavif_load_errors # <<>>
    /\ \A i \in 1..Len(libavif_load_errors) :
         libavif_load_errors[i].path # FoundAvif

\* The call waits on an external optimizer it started.
WaitingOnTool == phase = "stopped" /\ result.kind = "hang"

\* C18: every convert_img_format call eventually returns or raises, even
\* when an external optimizer it started (cjpeg, oxipng, optipng) never
\* exits: the wait on the subprocess is bounded by a timeout, as the wait on
\* a probe subprocess is.
C18_CallsComeBack == WaitingOnTool ~> (phase = "done")

\* cjpeg was started and never exits: the call is still waiting, its two
\* temp files on disk.
C18_Witness ==
    /\ WaitingOnTool
    /\ call.op = "convert_img_format"
    /\ Target \in JpegNames
    /\ result.trace[Len(result.trace)] = "cjpeg"
    /\ result.left = {"tmp_in.ppm", "tmp_out.jpg"}
(***************************************************************************)
(* C19.  Scaling in rasterize_svg.                                         *)
(***************************************************************************)
\* Exact arithmetic on the values of floats: x * y, x <= y, x = y, and
\* "x is within n parts in 2^MantissaBits of y" (n roundings' worth).
Prod(x, y) == Float(x.m * y.m, x.e + y.e)

Same(x, y) == FLeq(x, y) /\ FLeq(y, x)

Within(x, y, n) ==
    LET k == IF x.e <= y.e THEN x.e ELSE y.e
        a == x.m * Pow2(x.e - k)
        b == y.m * Pow2(y.e - k)
        diff == IF a >= b THEN a - b ELSE b - a
    IN  diff * Pow2(MantissaBits) <= n * b

NotAbove(x, y, n) ==
    LET k == IF x.e <= y.e THEN x.e ELSE y.e
        a == x.m * Pow2(x.e - k)
        b == y.m * Pow2(y.e - k)
    IN  a * Pow2(MantissaBits) <= b * (Pow2(MantissaBits) + n)

\* A rasterize_svg call that got as far as scaling a drawing.
Scaled ==
    /\ phase = "done"
    /\ call.op = "rasterize_svg"
    /\ result.parsed
    /\ call.image_file.data.kind = "svg"
    /\ Given(call.width) \/ Given(call.height)

OnlyWidth == Given(call.width) /\ ~Given(call.height)
OnlyHeight == Given(call.height) /\ ~Given(call.width)
BothGiven == Given(call.width) /\ Given(call.height)
HasWidth == call.drawing.width.m # 0
HasHeight == call.drawing.height.m # 0

\* The factor is the computed quotient target/intrinsic on the given axis,
\* and with both given the smaller of the two quotients.
FactorAsStated ==
    LET qx == FDiv(FromInt(call.width), call.drawing.width)
        qy == FDiv(FromInt(call.height), call.drawing.height)
    IN  /\ (OnlyWidth /\ HasWidth) => result.scaled.scale = qx
        /\ (OnlyHeight /\ HasHeight) => result.scaled.scale = qy
        /\ (BothGiven /\ HasWidth /\ HasHeight) =>
              result.scaled.scale \in {qx, qy}
              /\ FLeq(result.scaled.scale, qx)
              /\ FLeq(result.scaled.scale, qy)

\* C19 as stated: one factor for both axes, so the width:height ratio after
\* scaling equals the ratio before; the factor is target/intrinsic on the
\* given axis, the smaller of the two with both given; and the scaled
\* drawing exceeds neither target dimension.
C19_ScaleExact ==
    Scaled =>
      /\ FactorAsStated
      /\ (HasWidth /\ HasHeight) =>
            Same(Prod(result.scaled.width, call.drawing.height),
                 Prod(result.scaled.height, call.drawing.width))
      /\ BothGiven =>
            /\ FLeq(result.scaled.width, FromInt(call.width))
            /\ FLeq(result.scaled.height, FromInt(call.height))

\* C19, amended: rasterize_svg multiplies the drawing's width and its height
\* by one factor, each product rounded to a float, so the ratio after
\* scaling equals the ratio before to within three roundings; where the
\* drawing has a size on the axis, the factor is the float quotient
\* target/intrinsic on the given axis, the smaller of the two with both
\* given; and the scaled drawing exceeds no given target dimension by more
\* than three roundings.
C19_ScaleWithinRounding ==
    Scaled =>
      /\ FactorAsStated
      /\ (OnlyWidth /\ HasWidth) =>
            Within(Prod(result.scaled.scale, call.drawing.width),
                   FromInt(call.width), 1)
      /\ (OnlyHeight /\ HasHeight) =>
            Within(Prod(result.scaled.scale, call.drawing.height),
                   FromInt(call.height), 1)
      /\ (HasWidth /\ HasHeight) =>
            Within(Prod(result.scaled.width, call.drawing.height),
                   Prod(result.scaled.height, call.drawing.width), 3)
      /\ Given(call.width) =>
            NotAbove(result.scaled.width, FromInt(call.width), 3)
      /\ Given(call.height) =>
            NotAbove(result.scaled.height, FromInt(call.height), 3)

\* A 7 x 3 drawing asked for at 29 x 29: the width factor 29/7 is the
\* smaller, and 7 * (29/7) comes out above 29.
C19_Witness ==
    /\ Scaled
    /\ call.drawing = Drawing(7, 3)
    /\ call.width = 29 /\ call.height = 29
    /\ result.kind = "return"
    /\ result.scaled.scale = FDiv(FromInt(29), FromInt(7))
    /\ ~FLeq(result.scaled.width, FromInt(29))
    /\ NotAbove(result.scaled.width, FromInt(29), 3)

(***************************************************************************)
(* C20.  The SVG dependency probe runs once.                               *)
(***************************************************************************)
\* A step that is one whole call of rasterize_svg or convert_img_format.
CallStep == phase = "ready" /\ phase' = "done"

\* The call of this step got as far as _check_svg_support.
NeedsSvg ==
    \/ call'.op = "rasterize_svg"
    \/ call'.op = "convert_img_format" /\ result'.is_svg

\* C20: over any sequence of rasterize_svg and convert_img_format calls the
\* import probe runs only in the first call that needs it, which caches its
\* answer; every later call reuses the cached answer, which no step
\* changes; and while the cached answer is "absent" every rasterize_svg
\* call raises RuntimeError without parsing the markup.
C20_SvgProbeOnce ==
    [][ /\ svg_available # None => svg_available' = svg_available
        /\ CallStep =>
             /\ result'.probed <=> (NeedsSvg /\ svg_available = None)
             /\ result'.probed => svg_available' # None
             /\ (svg_available = "False" /\ call'.op = "rasterize_svg") =>
                   /\ result'.kind = "raise"
                   /\ result'.err = "RuntimeError"
                   /\ ~result'.parsed
      ]_vars

\* A rasterize_svg call on a machine without the packages, made after the
\* answer was cached: no probe, no parse, RuntimeError.
C20_Witness ==
    /\ phase = "done"
    /\ call.op = "rasterize_svg"
    /\ ~env.svgdeps
    /\ svg_available = "False"
    /\ ~result.probed
    /\ ~result.parsed
    /\ result.kind = "raise" /\ result.err = "RuntimeError"

(***************************************************************************)
(* C21.  The mozjpeg flag and the executable the encode runs.              *)
(***************************************************************************)
\* A JPEG conversion in which optimize_jpeg_mozjpeg started an executable.
JpegToolStarted ==
    /\ Converted
    /\ Target \in JpegNames
    /\ \E x \in Executables : InTrace(x)

\* C21: whenever the registry's mozjpeg flag is true, the executable that
\* optimize_jpeg_mozjpeg invokes for a JPEG conversion is one whose startup
\* probe succeeded: the flag is never true through one executable name
\* while the encode runs another name whose probe failed.
C21_FlagMatchesInvokedTool ==
    (JpegToolStarted /\ compression_tools["mozjpeg"])
        => \A x \in Executables :
              InTrace(x) => check_tool_available(env, x)

\* A machine with mozjpeg on the path and no cjpeg: the flag is true, the
\* JPEG encode starts cjpeg, that fails and Pillow writes the bytes.
C21_Witness ==
    /\ JpegToolStarted
    /\ compression_tools["mozjpeg"]
    /\ check_tool_available(env, "mozjpeg")
    /\ ~check_tool_available(env, "cjpeg")
    /\ InTrace("cjpeg") /\ ~InTrace("mozjpeg")
    /\ result.o.opt = "tool_fails"
    /\ result.kind = "return" /\ result.out.by = "PIL"

====
